---------------------------- MODULE Spec2Model ----------------------------
(*************************************************************************)
(* Week_1/assign_1_code.cpp: the Catalan numbers modulo 1000000007,      *)
(* computed by the quadratic convolution recurrence (computeCatalan)     *)
(* and printed by main for the indices 1..100.                           *)
(*                                                                       *)
(* The table holds `long long` entries.  TLC's integers are 32 bits      *)
(* wide, so the 64-bit product of line 12 is carried as a little-endian  *)
(* sequence of 12-bit limbs; every other quantity of the program is      *)
(* below 2^31 and is an ordinary integer.  The limb operators bind their *)
(* argument through a local function so that it is evaluated once.       *)
(*************************************************************************)
EXTENDS Integers, Sequences, FiniteSets, TLC

(* ---------------------------------------------------------------- *)
(* Program constants and the bounds of the model                    *)
(* ---------------------------------------------------------------- *)

\* const int MODULO = 1000000007;
MODULO == 1000000007

\* int maxN = 100;  (main)
maxN == 100

\* Largest limit of a direct call of computeCatalan the model explores.
MaxLimit == 20

\* Number of negative limits (-1, -2, ...) the model explores.
NegLimits == 2

(* ---------------------------------------------------------------- *)
(* long long arithmetic on limbs                                    *)
(* ---------------------------------------------------------------- *)

\* One limb holds 12 bits.
LimbBase == 4096

\* A wide number has six limbs (72 bits): room for a long long and for
\* the exact sum of a row of products.
WideLen == 6

\* A non-negative value below 2^31 as three limbs.
ToLimbs(v) ==
    << v % LimbBase, (v \div LimbBase) % LimbBase, v \div (LimbBase * LimbBase) >>

\* Column c (0-based) of the schoolbook product of two three-limb numbers.
Column(la, lb, c) ==
    LET part(q) == IF c - q \in 0..2 THEN la[q + 1] * lb[c - q + 1] ELSE 0
    IN  part(0) + part(1) + part(2)

\* Carry propagation over the columns p..WideLen.
RECURSIVE Carry(_, _, _)
Carry(cols, p, carry) ==
    LET rest[c \in Nat] == << c % LimbBase >> \o Carry(cols, p + 1, c \div LimbBase)
    IN  IF p > WideLen THEN << >> ELSE rest[cols[p] + carry]

\* x * y for operands 0 <= x, y < 2^31, exactly.
WideMul(x, y) ==
    LET xs == ToLimbs(x)
        ys == ToLimbs(y)
    IN  Carry(<< Column(xs, ys, 0), Column(xs, ys, 1), Column(xs, ys, 2),
                 Column(xs, ys, 3), Column(xs, ys, 4), 0 >>, 1, 0)

\* u + v of two wide numbers.
WideAdd(u, v) ==
    Carry(<< u[1] + v[1], u[2] + v[2], u[3] + v[3],
             u[4] + v[4], u[5] + v[5], u[6] + v[6] >>, 1, 0)

WideZero == << 0, 0, 0, 0, 0, 0 >>

\* (16 * r) % MODULO for 0 <= r < MODULO:  16 r = hi * 2^30 + 16 * lo.
Shl4Mod(r) ==
    LET shl[v \in Nat] ==
            LET lo == ((v % (2^26)) * 16) % MODULO
                hi == ((v \div (2^26)) * ((2^30) % MODULO)) % MODULO
            IN  (lo + hi) % MODULO
    IN  shl[r]

\* (2^12 * r) % MODULO for 0 <= r < MODULO.
Shl12Mod(r) == Shl4Mod(Shl4Mod(Shl4Mod(r)))

\* w % MODULO of a wide number, by Horner's rule from the top limb down.
WideMod(w) ==
    LET horner[u \in Seq(Nat)] ==
            LET r6 == u[6] % MODULO
                r5 == (Shl12Mod(r6) + u[5]) % MODULO
                r4 == (Shl12Mod(r5) + u[4]) % MODULO
                r3 == (Shl12Mod(r4) + u[3]) % MODULO
                r2 == (Shl12Mod(r3) + u[2]) % MODULO
            IN  (Shl12Mod(r2) + u[1]) % MODULO
    IN  horner[w]

\* w < 2^63: the value fits the signed 64-bit type (63 = 5 * 12 + 3).
FitsInt64(w) == w[6] < 2^3

\* C++ operator% on long long: the result takes the sign of the dividend.
CMod(a, n) == IF a >= 0 THEN a % n ELSE 0 - ((0 - a) % n)

(* ---------------------------------------------------------------- *)
(* computeCatalan, line by line                                     *)
(* ---------------------------------------------------------------- *)

\* A vector<long long> is a function on 0..size-1.
Size(v) == Cardinality(DOMAIN v)

\* Faulty variant: the table is filled with the sentinel -1 instead of 0.
NewTableSentinel(lim) == [ i \in 0..lim |-> 0 - 1 ]

\* Faulty variant: the table has limit entries instead of limit + 1.
NewTableShort(lim) == [ i \in 0..(lim - 1) |-> 0 ]

\* vector<long long> catalan(limit + 1, 0);
NewTable(lim) == [ i \in 0..lim |-> 0 ]

\* catalan[0] = 1;
BaseCase(cat) == [ cat EXCEPT ![0] = 1 ]

\* Faulty variant: idx < limit, the last index is never computed.
OuterCondStrict(i, lim) == i < lim

\* idx <= limit
OuterCond(i, lim) == i <= lim

\* k < idx
InnerCond(i, j) == j < i

\* The two operands of the multiplication: catalan[k], catalan[idx - k - 1].
LeftIndex(i, j) == j

\* Faulty variant: catalan[idx - k], off by one.
RightIndexOffByOne(i, j) == i - j

RightIndex(i, j) == i - j - 1

\* catalan[k] * catalan[idx - k - 1], in long long.
Product(cat, i, j) == WideMul(cat[LeftIndex(i, j)], cat[RightIndex(i, j)])

\* (catalan[k] * catalan[idx - k - 1]) % MODULO
Term(cat, i, j) == WideMod(Product(cat, i, j))

\* catalan[idx] + (...) % MODULO, before the outer reduction.
Sum(cat, i, j) == cat[i] + Term(cat, i, j)

\* Faulty variant: the term overwrites catalan[idx] instead of adding to it.
AccumulateOverwrite(cat, i, j) == CMod(Term(cat, i, j), MODULO)

\* Faulty variant: the running sum is not reduced after the addition.
AccumulateNoReduce(cat, i, j) == Sum(cat, i, j)

\* (catalan[idx] + (...) % MODULO) % MODULO
Accumulate(cat, i, j) == CMod(Sum(cat, i, j), MODULO)

\* Faulty variant: the right operand is catalan[limit - k - 1], taken from
\* the end of the table instead of from idx.
InnerBodyFromEnd(cat, i, j) ==
    [ cat EXCEPT ![i] =
        CMod(cat[i] + WideMod(WideMul(cat[j], cat[Size(cat) - j - 2])), MODULO) ]

\* Line 12: the assignment to catalan[idx].
InnerBody(cat, i, j) == [ cat EXCEPT ![i] = Accumulate(cat, i, j) ]

(* ---------------------------------------------------------------- *)
(* operator<< on std::cout                                          *)
(* ---------------------------------------------------------------- *)

DigitChars == << "0", "1", "2", "3", "4", "5", "6", "7", "8", "9" >>

\* cout << v for a long long: the base-10 digits, most significant first.
RECURSIVE Digits(_)
Digits(v) == IF v < 10 THEN << DigitChars[v + 1] >>
             ELSE Digits(v \div 10) \o << DigitChars[(v % 10) + 1] >>

Decimal(v) == IF v < 0 THEN << "-" >> \o Digits(0 - v) ELSE Digits(v)

\* One operator<< call: what was inserted, and the characters it wrote.
WriteInt(v) == [ kind |-> "long long", text |-> Decimal(v) ]
WriteStr(t) == [ kind |-> "string", text |-> t ]

(* ---------------------------------------------------------------- *)
(* State                                                            *)
(* ---------------------------------------------------------------- *)

VARIABLES
    pc,         \* position in the program
    caller,     \* "main", or "direct" for calls of computeCatalan alone
    call,       \* which call of computeCatalan this is (1 or 2)
    first,      \* the table the first of two direct calls returned
    limit,      \* computeCatalan's parameter
    catalan,    \* computeCatalan's local table
    idx,        \* outer loop index
    k,          \* inner loop index
    last,       \* the sub-values of the latest evaluation of line 12
    steps,      \* number of executions of line 12
    done,       \* indices whose inner loop has completed (index 0: base case)
    result,     \* main's `result` / the value handed to the caller
    m,          \* main's loop index
    out,        \* the operator<< calls made on std::cout, in order
    exitCode    \* process exit status; -1 while running

vars == << pc, caller, call, first, limit, catalan, idx, k, last, steps, done, result, m, out, exitCode >>

genVars == << catalan, idx, k, last, steps, done >>
mainVars == << result, m, out, exitCode >>

\* `last` before any table access: nothing read, nothing written.
NoEval == [ reads |-> {}, operands |-> {}, write |-> -1, a |-> 0, b |-> 0,
            prod |-> WideZero, term |-> 0, acc |-> 0, sum |-> 0 ]

Fresh ==
    /\ catalan = << >>
    /\ idx = 0
    /\ k = 0
    /\ last = NoEval
    /\ steps = 0
    /\ done = {}
    /\ result = << >>
    /\ m = 0
    /\ out = << >>
    /\ exitCode = -1
    /\ call = 1
    /\ first = << >>

\* Either the program starts in main, or computeCatalan is entered directly
\* with an argument of the explored range.
Init ==
    /\ Fresh
    /\ \/ pc = "main" /\ caller = "main" /\ limit = 0
       \/ pc = "call" /\ caller = "direct" /\ limit \in (0 - NegLimits)..MaxLimit

(* ---------------------------------------------------------------- *)
(* Actions                                                          *)
(* ---------------------------------------------------------------- *)

\* main: int maxN = 100; computeCatalan(maxN)
MainCall ==
    /\ pc = "main"
    /\ limit' = maxN
    /\ pc' = "call"
    /\ UNCHANGED << caller, call, first, genVars, mainVars >>

\* Line 8 with limit + 1 >= 0: the table is allocated and zero-filled.
Alloc ==
    /\ pc = "call"
    /\ limit + 1 >= 0
    /\ catalan' = NewTable(limit)
    /\ pc' = "base"
    /\ UNCHANGED << caller, call, first, limit, idx, k, last, steps, done, mainVars >>

\* Line 8 with limit + 1 < 0: the int converts to a size_t above max_size()
\* and the vector constructor throws std::length_error, which nothing catches.
AllocThrows ==
    /\ pc = "call"
    /\ limit + 1 < 0
    /\ pc' = "length_error"
    /\ UNCHANGED << caller, call, first, limit, genVars, mainVars >>

\* Line 9 on a non-empty table, then the outer loop's initialisation.
SetBase ==
    /\ pc = "base"
    /\ 0 \in DOMAIN catalan
    /\ catalan' = BaseCase(catalan)
    /\ last' = [ NoEval EXCEPT !.write = 0 ]
    /\ done' = {0}
    /\ idx' = 1
    /\ pc' = "outer"
    /\ UNCHANGED << caller, call, first, limit, k, steps, mainVars >>

\* Line 9 on an empty table (limit = -1): a write past the end of the
\* vector, undefined behaviour.  The build may fault, or the write may land
\* outside the vector and execution go on.
SetBaseOutOfBounds ==
    /\ pc = "base"
    /\ 0 \notin DOMAIN catalan
    /\ last' = [ NoEval EXCEPT !.write = 0 ]
    /\ idx' = 1
    /\ pc' \in { "fault", "outer" }
    /\ UNCHANGED << caller, call, first, limit, catalan, k, steps, done, mainVars >>

\* Line 10, condition true: enter the inner loop with k = 0.
OuterEnter ==
    /\ pc = "outer"
    /\ OuterCond(idx, limit)
    /\ k' = 0
    /\ pc' = "inner"
    /\ UNCHANGED << caller, call, first, limit, catalan, idx, last, steps, done, mainVars >>

\* Lines 11-12, condition true: one evaluation of line 12, then ++k.
\* A product outside long long is signed overflow, undefined behaviour.
InnerStep ==
    /\ pc = "inner"
    /\ InnerCond(idx, k)
    /\ LET prod == Product(catalan, idx, k)
       IN  /\ last' = [ reads    |-> { idx, LeftIndex(idx, k), RightIndex(idx, k) },
                        operands |-> { LeftIndex(idx, k), RightIndex(idx, k) },
                        write    |-> idx,
                        a        |-> catalan[LeftIndex(idx, k)],
                        b        |-> catalan[RightIndex(idx, k)],
                        prod     |-> prod,
                        term     |-> Term(catalan, idx, k),
                        acc      |-> catalan[idx],
                        sum      |-> Sum(catalan, idx, k) ]
           /\ IF FitsInt64(prod)
              THEN /\ catalan' = InnerBody(catalan, idx, k)
                   /\ pc' = "inner"
              ELSE /\ catalan' \in { catalan, InnerBody(catalan, idx, k) }
                   /\ pc' \in { "fault", "inner" }
    /\ k' = k + 1
    /\ steps' = steps + 1
    /\ UNCHANGED << caller, call, first, limit, idx, done, mainVars >>

\* Line 11, condition false: the inner loop ends, ++idx.
InnerExit ==
    /\ pc = "inner"
    /\ ~InnerCond(idx, k)
    /\ done' = done \cup {idx}
    /\ idx' = idx + 1
    /\ pc' = "outer"
    /\ UNCHANGED << caller, call, first, limit, catalan, k, last, steps, mainVars >>

\* Line 10, condition false, then line 15: return catalan.
Return ==
    /\ pc = "outer"
    /\ ~OuterCond(idx, limit)
    /\ result' = catalan
    /\ pc' = "returned"
    /\ UNCHANGED << caller, call, first, limit, genVars, m, out, exitCode >>

\* A direct caller keeps the returned table and calls again with a limit
\* at least as large: a new invocation builds a new table.
SecondCall ==
    /\ pc = "returned"
    /\ caller = "direct"
    /\ call = 1
    /\ limit >= 0
    /\ first' = result
    /\ call' = 2
    /\ limit' \in limit..MaxLimit
    /\ catalan' = << >>
    /\ idx' = 0
    /\ k' = 0
    /\ last' = NoEval
    /\ steps' = 0
    /\ done' = {}
    /\ pc' = "call"
    /\ UNCHANGED << caller, result, m, out, exitCode >>

\* Faulty variant: the print loop starts at m = 0.
MainLoopInitFromZero ==
    /\ pc = "returned"
    /\ caller = "main"
    /\ m' = 0
    /\ pc' = "print"
    /\ UNCHANGED << caller, call, first, limit, genVars, result, out, exitCode >>

\* Line 22: m = 1.
MainLoopInit ==
    /\ pc = "returned"
    /\ caller = "main"
    /\ m' = 1
    /\ pc' = "print"
    /\ UNCHANGED << caller, call, first, limit, genVars, result, out, exitCode >>

\* Faulty variant: the space is written between values only, so the last
\* value has no space after it.
PrintValueNoTrailingSpace ==
    /\ pc = "print"
    /\ m <= maxN
    /\ out' = out \o (IF m > 1 THEN << WriteStr(<< " " >>) >> ELSE << >>)
                  \o << WriteInt(result[m]) >>
    /\ m' = m + 1
    /\ UNCHANGED << pc, caller, call, first, limit, genVars, result, exitCode >>

\* Lines 22-23: cout << result[m] << " "; ++m.
PrintValue ==
    /\ pc = "print"
    /\ m <= maxN
    /\ out' = out \o << WriteInt(result[m]), WriteStr(<< " " >>) >>
    /\ m' = m + 1
    /\ UNCHANGED << pc, caller, call, first, limit, genVars, result, exitCode >>

\* Line 25: cout << "\n".
PrintNewline ==
    /\ pc = "print"
    /\ ~(m <= maxN)
    /\ out' = Append(out, WriteStr(<< "\n" >>))
    /\ pc' = "newline"
    /\ UNCHANGED << caller, call, first, limit, genVars, result, m, exitCode >>

\* Line 26: return 0.
Exit ==
    /\ pc = "newline"
    /\ exitCode' = 0
    /\ pc' = "exited"
    /\ UNCHANGED << caller, call, first, limit, genVars, result, m, out >>

Next ==
    \/ MainCall
    \/ Alloc
    \/ AllocThrows
    \/ SetBase
    \/ SetBaseOutOfBounds
    \/ OuterEnter
    \/ InnerStep
    \/ InnerExit
    \/ Return
    \/ SecondCall
    \/ MainLoopInit
    \/ PrintValue
    \/ PrintNewline
    \/ Exit

Spec == Init /\ [][Next]_vars

(* ---------------------------------------------------------------- *)
(* Vocabulary of the properties                                     *)
(* ---------------------------------------------------------------- *)

\* computeCatalan has handed its table to the caller.
AfterReturn == { "returned", "print", "newline", "exited" }

\* The table exists: line 8 has run.
Allocated == { "base", "outer", "inner" } \cup AfterReturn

\* Line 9 has run.
Based == { "outer", "inner" } \cup AfterReturn

InRange(v) == 0 <= v /\ v < MODULO

\* The exact sum of cat[q] * cat[i - 1 - q] over lo <= q < hi.
RECURSIVE ConvSum(_, _, _, _)
ConvSum(cat, i, lo, hi) ==
    IF hi <= lo THEN WideZero
    ELSE IF hi = lo + 1 THEN WideMul(cat[lo], cat[i - 1 - lo])
    ELSE WideAdd(ConvSum(cat, i, lo, (lo + hi) \div 2),
                 ConvSum(cat, i, (lo + hi) \div 2, hi))

\* The Catalan convolution at index i, reduced once at the end.
Convolution(cat, i) == WideMod(ConvSum(cat, i, 0, i))

\* Reading a printed integer back.
DigitValue(c) == CHOOSE d \in 0..9 : DigitChars[d + 1] = c

RECURSIVE ParseDecimal(_)
ParseDecimal(t) ==
    IF Len(t) = 1 THEN DigitValue(t[1])
    ELSE 10 * ParseDecimal(SubSeq(t, 1, Len(t) - 1)) + DigitValue(t[Len(t)])

IsDecimal(t) ==
    /\ Len(t) >= 1
    /\ \A p \in 1..Len(t) : \E d \in 0..9 : DigitChars[d + 1] = t[p]
    /\ (Len(t) > 1 => t[1] # "0")

\* Event e is the insertion of the integer v.
IsValue(e, v) == e.kind = "long long" /\ IsDecimal(e.text) /\ ParseDecimal(e.text) = v

IsSpace(e) == e = WriteStr(<< " " >>)
IsNewline(e) == e = WriteStr(<< "\n" >>)

\* The first 2n events are res[from], space, res[from + 1], space, ...
ValuesThenSpaces(o, res, from, n) ==
    /\ Len(o) >= 2 * n
    /\ \A j \in 1..n : /\ from + j - 1 \in DOMAIN res
                       /\ IsValue(o[2 * j - 1], res[from + j - 1])
                       /\ IsSpace(o[2 * j])

(* ---------------------------------------------------------------- *)
(* Properties                                                       *)
(* ---------------------------------------------------------------- *)

\* C1: at return, for every idx in 1..limit the returned entry equals the
\* Catalan convolution of the returned lower entries, reduced mod MODULO.
C1_Recurrence ==
    (pc = "returned" /\ limit >= 0) =>
        \A i \in 1..limit : result[i] = Convolution(result, i)

\* C1 case: main's call has returned; entry 19 is the first Catalan number
\* above the modulus, stored reduced.
C1_Witness ==
    /\ pc = "returned"
    /\ limit = maxN
    /\ result[4] = 14
    /\ result[19] = 767263183

\* C2: a negative limit ends in an error outcome without any access to the
\* table (stated of the code as written: the outcome may be the library's
\* length_error as well as an InvalidArgument).
C2_NegativeLimitRejected ==
    limit < 0 =>
        /\ pc \in { "call", "length_error", "invalid_argument" }
        /\ last.write = 0 - 1

\* C3 as stated: main prints all 101 values, indices 0 through 100, each
\* followed by a space, then a newline, and exits with status 0.
C3_PrintsAll101 ==
    pc = "exited" =>
        /\ Len(out) = 2 * (maxN + 1) + 1
        /\ ValuesThenSpaces(out, result, 0, maxN + 1)
        /\ IsNewline(out[Len(out)])
        /\ exitCode = 0

\* C3 amended: main calls the generator with limit 100 and prints the 100
\* values at indices 1 through 100, each followed by a single space, then a
\* newline, and exits with status 0.
C3_PrintsIndices1To100 ==
    pc = "exited" =>
        /\ limit = 100
        /\ Len(out) = 2 * 100 + 1
        /\ ValuesThenSpaces(out, result, 1, 100)
        /\ IsNewline(out[Len(out)])
        /\ exitCode = 0

\* C3 case: main has exited after printing "1 2 5 14 ...".
C3_Witness ==
    /\ pc = "exited"
    /\ out[1].text = << "1" >>
    /\ out[3].text = << "2" >>
    /\ out[7].text = << "1", "4" >>
    /\ Len(out) = 201

\* C4: the output events are, in order, result[m] and a space for
\* m = 1, 2, ..., limit, then a newline, then exit with code 0; result[0] is
\* never written, the last value too is followed by a space, and nothing is
\* written before the generator has returned.
C4_OutputSequence ==
    /\ pc \notin { "print", "newline", "exited" } => out = << >>
    /\ pc = "print" =>
          /\ m \in 1..(limit + 1)
          /\ Len(out) = 2 * (m - 1)
          /\ ValuesThenSpaces(out, result, 1, m - 1)
    /\ pc \in { "newline", "exited" } =>
          /\ Len(out) = 2 * limit + 1
          /\ ValuesThenSpaces(out, result, 1, limit)
          /\ IsNewline(out[Len(out)])
    /\ exitCode = (IF pc = "exited" THEN 0 ELSE 0 - 1)

\* C4 case: the newline has been written after the 100th value and its space.
C4_Witness ==
    /\ pc = "newline"
    /\ Len(out) = 201
    /\ IsValue(out[199], result[100])
    /\ IsSpace(out[200])
    /\ exitCode = 0 - 1

\* C5: in every state every entry of the table, and of every returned
\* table, lies in [0, MODULO).
C5_EntriesInRange ==
    /\ \A i \in DOMAIN catalan : InRange(catalan[i])
    /\ \A i \in DOMAIN result : InRange(result[i])
    /\ \A i \in DOMAIN first : InRange(first[i])

\* C5 case: inside the inner loop an entry holds a value that had to be
\* reduced (Catalan(19) exceeds the modulus).
C5_Witness ==
    /\ pc = "inner"
    /\ idx > 19
    /\ catalan[19] = 767263183

\* C6: for limit >= 0 the table has limit + 1 entries from its allocation
\* on and entry 0 is 1 from line 9 on; with limit = 0 the outer loop body never
\* runs and the result is [1].
C6_LengthAndBase ==
    limit >= 0 =>
        /\ pc \in Allocated => Size(catalan) = limit + 1
        /\ pc \in Based => catalan[0] = 1
        /\ pc \in AfterReturn =>
              /\ DOMAIN result = 0..limit
              /\ result[0] = 1
        /\ (limit = 0 /\ pc # "main") => (pc # "inner" /\ steps = 0)
        /\ (limit = 0 /\ pc = "returned") => result = [ i \in {0} |-> 1 ]

\* C6 case: computeCatalan(0) has returned.
C6_Witness ==
    /\ pc = "returned"
    /\ limit = 0
    /\ Size(result) = 1
    /\ result[0] = 1

\* C7: the table a call with limit n returned is the first n + 1 entries of
\* the table a call with limit m >= n returns.
C7_PrefixStable ==
    (pc = "returned" /\ call = 2) =>
        /\ Size(first) <= Size(result)
        /\ \A i \in DOMAIN first : first[i] = result[i]

\* C7 case: a second call with a larger limit has returned, and the
\* shared prefix reaches past the first reduced entry.
C7_Witness ==
    /\ pc = "returned"
    /\ call = 2
    /\ Size(first) >= 20
    /\ first[19] = 767263183
    /\ Size(first) < Size(result)

\* C8: in every evaluation of line 12 both operands are below MODULO, their
\* exact product fits the signed 64-bit type, the product is reduced before it
\* is added, the unreduced sum stays far below 2^63, and the stored sum is
\* reduced again.
C8_NoOverflow ==
    last.write >= 1 =>
        /\ InRange(last.a) /\ InRange(last.b)
        /\ last.prod = WideMul(last.a, last.b)
        /\ FitsInt64(last.prod)
        /\ last.term = WideMod(last.prod)
        /\ InRange(last.term)
        /\ InRange(last.acc)
        /\ last.sum = last.acc + last.term
        /\ last.sum < 2 * MODULO
        /\ (pc \in { "inner", "outer" } /\ last.write \in DOMAIN catalan) =>
              /\ catalan[last.write] = last.sum % MODULO
              /\ InRange(catalan[last.write])

\* C8 case: a product that needs more than 32 bits was formed and the sum
\* had to be reduced.
C8_Witness ==
    /\ last.write >= 1
    /\ last.prod[4] > 0
    /\ last.sum >= MODULO
    /\ catalan[last.write] = last.sum - MODULO

\* Steps of computeCatalan still to run before its return, for limit >= 0:
\* the outer loop at index i costs one entry, i inner steps and one exit.
OuterRest(i) ==
    IF i > limit THEN 0
    ELSE ((i + limit) * (limit - i + 1)) \div 2 + 2 * (limit - i + 1)

Remaining ==
    CASE pc = "call"  -> 3 + OuterRest(1)
      [] pc = "base"  -> 2 + OuterRest(1)
      [] pc = "outer" -> 1 + OuterRest(idx)
      [] pc = "inner" -> (idx - k) + 2 + OuterRest(idx + 1)
      [] OTHER        -> 0

Running == limit >= 0 /\ pc \in { "call", "base", "outer", "inner" }

\* C9: every call with limit >= 0 reaches its return (while it runs a step
\* is always possible and every step brings the return one step nearer); at
\* the return the inner loop has completed for every index 0..limit; and no
\* later step of the caller changes the returned table.
C9_TerminatesComplete ==
    /\ [](Running => (ENABLED Next /\ Remaining > 0))
    /\ [][ Running => (Remaining' = Remaining - 1 /\ (Remaining' = 0 <=> pc' = "returned")) ]_vars
    /\ []((pc = "returned" /\ limit >= 0) =>
            /\ done = 0..limit
            /\ idx = limit + 1
            /\ 2 * steps = limit * (limit + 1)
            /\ result = catalan)
    /\ [][ (pc \in AfterReturn /\ call' = call) =>
              (result' = result /\ catalan' = catalan) ]_vars

\* C9 case: main has exited; the table is still the one returned.
C9_Witness ==
    /\ pc = "exited"
    /\ done = 0..maxN
    /\ result = catalan
    /\ 2 * steps = maxN * (maxN + 1)

\* C10 as stated: a step of the inner loop at idx writes only catalan[idx],
\* reads only entries at indices 0..idx-1, leaves the entries below idx
\* unchanged, and the entries above idx are still 0.
C10_ReadsOnlyBelowIdx ==
    [][ (pc = "inner" /\ steps' = steps + 1) =>
          /\ last'.write = idx
          /\ \A i \in DOMAIN catalan : i # idx => catalan'[i] = catalan[i]
          /\ last'.reads \subseteq 0..(idx - 1)
          /\ \A i \in (idx + 1)..limit : catalan[i] = 0 /\ catalan'[i] = 0 ]_vars

\* C10 amended: a step of the inner loop at idx writes only catalan[idx];
\* besides catalan[idx] itself (the running sum it adds to) it reads only the
\* two multiplication operands, which lie at indices 0..idx-1 whose inner loop
\* has completed; the entries below idx are unchanged and the entries above
\* idx are still 0.
C10_FrameOfInnerStep ==
    [][ (pc = "inner" /\ steps' = steps + 1) =>
          /\ last'.write = idx
          /\ \A i \in DOMAIN catalan : i # idx => catalan'[i] = catalan[i]
          /\ last'.operands \subseteq 0..(idx - 1)
          /\ last'.operands \subseteq done
          /\ last'.reads = last'.operands \cup {idx}
          /\ \A i \in (idx + 1)..limit : catalan[i] = 0 /\ catalan'[i] = 0 ]_vars

\* C10 case: the step k = 0 at idx = 3 has run in a longer table.
C10_Witness ==
    /\ pc = "inner"
    /\ idx = 3
    /\ k = 1
    /\ limit > 3
    /\ last.write = 3
    /\ last.operands = { 0, 2 }
    /\ catalan[3] = 2
    /\ catalan[4] = 0

=============================================================================
